---- MODULE Spec2Model ----
(***************************************************************************)
(* CTAP-HID transport engine of virtual-fido-pi.                           *)
(*                                                                         *)
(* The model follows src/virtual_fido/ctap_hid.go: the channel table and   *)
(* its per-channel reassembly state, the channel id counter, the outbound  *)
(* packet queue, and the pending-request map with its kill switches.       *)
(* Reports are handled by goroutines that run concurrently, as readLoop in *)
(* the HID bridge starts one goroutine per report; callers of getResponse  *)
(* and removeWaitingRequest are further goroutines.                        *)
(*                                                                         *)
(* A uint32 is a tuple of four bytes, most significant first, because the  *)
(* broadcast id 0xFFFFFFFF does not fit the integers of the checker.       *)
(* A Go pointer or slice that may be nil is a sequence of length 0 (nil)   *)
(* or 1 (the value).                                                       *)
(***************************************************************************)
EXTENDS Integers, Sequences, FiniteSets, TLC

----------------------------------------------------------------------------
(* Bounds of the model *)

MaxReports == 2
MaxWaits == 1
MaxCancels == 1

(* The payload lengths the codec is run on are 0..MaxPayloadLength and 4096 *)
MaxPayloadLength == 192

(* The width of the channel id counter where its wrap-around is explored;   *)
(* the program's counter is a uint32.                                       *)
CounterBits == 8

(* readLoop starts one goroutine per report; every getResponse call and     *)
(* every removeWaitingRequest call is a goroutine of the caller.            *)
(* Reports handled one after another in a run of SerialSpec. *)
MaxServed == 5

(* getResponse and removeWaitingRequest calls in a run of CallSpec. *)
MaxCalls == 3
MaxRemoves == 2

Handlers == 1..MaxReports
Waiters == 1..MaxWaits
Cancellers == 1..MaxCancels

----------------------------------------------------------------------------
(* Constants of the program *)

CTAPHID_COMMAND_MSG == 131
CTAPHID_COMMAND_CBOR == 144
CTAPHID_COMMAND_INIT == 134
CTAPHID_COMMAND_PING == 129
CTAPHID_COMMAND_CANCEL == 145
CTAPHID_COMMAND_ERROR == 191
CTAPHID_COMMAND_KEEPALIVE == 187
CTAPHID_COMMAND_WINK == 136
CTAPHID_COMMAND_LOCK == 132

CTAPHID_ERR_INVALID_COMMAND == 1
CTAPHID_ERR_INVALID_LENGTH == 3
CTAPHID_ERR_INVALID_CHANNEL == 11
CTAPHID_ERR_OTHER == 127

CTAPHIDSERVER_MAX_PACKET_SIZE == 64

ResponsesCapacity == 100

CTAPHID_BROADCAST_CHANNEL == <<255, 255, 255, 255>>

None == <<>>
Some(x) == <<x>>

----------------------------------------------------------------------------
(* uint32 arithmetic and the byte order helpers *)

U32(n) ==
    <<(n \div 16777216) % 256, (n \div 65536) % 256, (n \div 256) % 256, n % 256>>

U32Inc(x) ==
    IF x[4] < 255 THEN <<x[1], x[2], x[3], x[4] + 1>>
    ELSE IF x[3] < 255 THEN <<x[1], x[2], x[3] + 1, 0>>
    ELSE IF x[2] < 255 THEN <<x[1], x[2] + 1, 0, 0>>
    ELSE IF x[1] < 255 THEN <<x[1] + 1, 0, 0, 0>>
    ELSE <<0, 0, 0, 0>>

toLEChannelID(channelID) ==
    <<channelID[4], channelID[3], channelID[2], channelID[1]>>

toLECommand(command) == <<command % 256>>

toBEUint16(length) == <<(length \div 256) % 256, length % 256>>

readLEChannelID(message) ==
    <<message[4], message[3], message[2], message[1]>>

readLECommand(message) == message[5]

readBEUint16(message) == message[6] * 256 + message[7]

flatten(parts) ==
    LET RECURSIVE Cat(_)
        Cat(i) == IF i > Len(parts) THEN <<>> ELSE parts[i] \o Cat(i + 1)
    IN Cat(1)

pad(data, size) ==
    IF Len(data) >= size THEN data
    ELSE data \o [i \in 1..(size - Len(data)) |-> 0]

toLEInitResponse(response) ==
    response.Nonce \o toLEChannelID(response.NewChannelID)
        \o <<response.ProtocolVersion, response.DeviceVersionMajor,
             response.DeviceVersionMinor, response.DeviceVersionBuild,
             response.CapabilitiesFlags>>

----------------------------------------------------------------------------
(* Packet codec *)

isFollowupMessage(command) == (command \div 128) % 2 # 0

newCTAPHIDMessageHeader(channelID, command, length) ==
    flatten(<<toLEChannelID(channelID), toLECommand(command), toBEUint16(length)>>)

RECURSIVE createResponsePacketsLoop(_, _, _, _)
createResponsePacketsLoop(channelId, command, payload, sequence) ==
    IF Len(payload) > 0
    THEN LET head == IF sequence < 0
                     THEN newCTAPHIDMessageHeader(channelId, command, Len(payload) % 65536)
                     ELSE toLEChannelID(channelId) \o <<sequence % 256>>
             room == CTAPHIDSERVER_MAX_PACKET_SIZE - Len(head)
             bytesLeft == IF room > Len(payload) THEN Len(payload) ELSE room
             packet == pad(head \o SubSeq(payload, 1, bytesLeft),
                           CTAPHIDSERVER_MAX_PACKET_SIZE)
         IN <<packet>> \o createResponsePacketsLoop(channelId, command,
                              SubSeq(payload, bytesLeft + 1, Len(payload)),
                              sequence + 1)
    ELSE <<>>

(* A faulty variant of createResponsePackets: the call of pad is left out   *)
(* for the last packet of a message.                                        *)
createResponsePacketsUnpadded(channelId, command, payload) ==
    LET packets == createResponsePacketsLoop(channelId, command, payload, -1)
        header == IF Len(packets) = 1 THEN 4 + 1 + 2 ELSE 4 + 1
        used == header + Len(payload) - (IF Len(packets) = 1 THEN 0
                                         ELSE 57 + 59 * (Len(packets) - 2))
    IN [i \in 1..Len(packets) |->
            IF i = Len(packets) THEN SubSeq(packets[i], 1, used) ELSE packets[i]]

(* A faulty variant of createResponsePackets: sequence starts at 0 instead  *)
(* of -1 once the initial packet is out, so the continuation packets are    *)
(* numbered from 1.                                                         *)
createResponsePacketsFromOne(channelId, command, payload) ==
    LET packets == createResponsePacketsLoop(channelId, command, payload, -1)
    IN [i \in 1..Len(packets) |->
            IF i = 1 THEN packets[i]
            ELSE [packets[i] EXCEPT ![5] = (@ + 1) % 256]]

createResponsePackets(channelId, command, payload) ==
    createResponsePacketsLoop(channelId, command, payload, -1)

(* A faulty variant of ctapHidError: the error is framed on the broadcast    *)
(* channel instead of the channel of the report.                            *)
ctapHidErrorOnBroadcast(channelId, err) ==
    createResponsePackets(CTAPHID_BROADCAST_CHANNEL, CTAPHID_COMMAND_ERROR, <<err>>)

ctapHidError(channelId, err) ==
    createResponsePackets(channelId, CTAPHID_COMMAND_ERROR, <<err>>)

----------------------------------------------------------------------------
(* Channel: the per-channel reassembly state machine *)

(* A faulty variant of NewCTAPHIDChannel: the payload starts as an empty    *)
(* slice instead of nil.                                                    *)
NewCTAPHIDChannelEmptyPayload(channelId) ==
    [channelId |-> channelId, inProgressHeader |-> None,
     inProgressPayload |-> Some(<<>>)]

NewCTAPHIDChannel(channelId) ==
    [channelId |-> channelId, inProgressHeader |-> None, inProgressPayload |-> None]

(* A faulty variant of channelHandleMessage: a continuation packet whose    *)
(* sequence byte is not the next one expected is dropped.                   *)
channelHandleMessageInSequence(channel, message) ==
    IF channel.inProgressPayload # None
    THEN LET header == channel.inProgressHeader[1]
             payloadLeft == header.PayloadLength - Len(channel.inProgressPayload[1])
             payloadIndex == 4 + 1
             payload == SubSeq(message, payloadIndex + 1, Len(message))
             appended == channel.inProgressPayload[1] \o payload
             buffered == [channel EXCEPT !.inProgressPayload = Some(appended)]
             expected == (Len(channel.inProgressPayload[1]) - 57) \div 59
         IN IF Len(message) < payloadIndex
            THEN [final |-> FALSE, followup |-> TRUE, channel |-> channel,
                  header |-> header, payload |-> <<>>, backing |-> <<>>,
                  fault |-> TRUE]
            ELSE IF message[5] # expected
            THEN [final |-> FALSE, followup |-> TRUE, channel |-> channel,
                  header |-> header, payload |-> <<>>, backing |-> <<>>,
                  fault |-> FALSE]
            ELSE IF payloadLeft > Len(payload)
            THEN [final |-> FALSE, followup |-> TRUE, channel |-> buffered,
                  header |-> header, payload |-> <<>>, backing |-> <<>>,
                  fault |-> FALSE]
            ELSE [final |-> TRUE, followup |-> TRUE, channel |-> buffered,
                  header |-> header, payload |-> appended, backing |-> appended,
                  fault |-> FALSE]
    ELSE LET command == readLECommand(message)
             payloadLength == readBEUint16(message)
             header == [ChannelID |-> channel.channelId, Command |-> command,
                        PayloadLength |-> payloadLength]
             payloadIndex == 4 + 1 + 2
             payload == SubSeq(message, payloadIndex + 1, Len(message))
         IN IF Len(message) < payloadIndex
            THEN [final |-> FALSE, followup |-> FALSE, channel |-> channel,
                  header |-> [ChannelID |-> channel.channelId, Command |-> 0,
                              PayloadLength |-> 0],
                  payload |-> <<>>, backing |-> <<>>, fault |-> TRUE]
            ELSE IF payloadLength > Len(payload) % 65536
            THEN [final |-> FALSE, followup |-> FALSE,
                  channel |-> [channel EXCEPT !.inProgressHeader = Some(header),
                                              !.inProgressPayload = Some(payload)],
                  header |-> header, payload |-> <<>>, backing |-> <<>>,
                  fault |-> FALSE]
            ELSE [final |-> TRUE, followup |-> FALSE, channel |-> channel,
                  header |-> header, payload |-> SubSeq(payload, 1, payloadLength),
                  backing |-> payload, fault |-> FALSE]

(* channel.handleMessage up to the call of handleFinalizedMessage.  final   *)
(* tells whether a message is finalized; channel is the channel as the      *)
(* dispatcher sees it; backing is the array behind the payload slice, which *)
(* a re-slice such as payload[:8] can read beyond the payload's length;     *)
(* followup tells that the in-progress state is reset after the dispatch.   *)
(* fault tells that the report is shorter than payloadIndex, so that the    *)
(* slice expression message[payloadIndex:] (lines 209, 233) panics.         *)
channelHandleMessage(channel, message) ==
    IF channel.inProgressPayload # None
    THEN LET header == channel.inProgressHeader[1]
             payloadLeft == header.PayloadLength - Len(channel.inProgressPayload[1])
             payloadIndex == 4 + 1
             payload == SubSeq(message, payloadIndex + 1, Len(message))
             appended == channel.inProgressPayload[1] \o payload
             buffered == [channel EXCEPT !.inProgressPayload = Some(appended)]
         IN IF Len(message) < payloadIndex
            THEN [final |-> FALSE, followup |-> TRUE, channel |-> channel,
                  header |-> header, payload |-> <<>>, backing |-> <<>>,
                  fault |-> TRUE]
            ELSE IF payloadLeft > Len(payload)
            THEN [final |-> FALSE, followup |-> TRUE, channel |-> buffered,
                  header |-> header, payload |-> <<>>, backing |-> <<>>,
                  fault |-> FALSE]
            ELSE [final |-> TRUE, followup |-> TRUE, channel |-> buffered,
                  header |-> header, payload |-> appended, backing |-> appended,
                  fault |-> FALSE]
    ELSE LET command == readLECommand(message)
             payloadLength == readBEUint16(message)
             header == [ChannelID |-> channel.channelId, Command |-> command,
                        PayloadLength |-> payloadLength]
             payloadIndex == 4 + 1 + 2
             payload == SubSeq(message, payloadIndex + 1, Len(message))
         IN IF Len(message) < payloadIndex
            THEN [final |-> FALSE, followup |-> FALSE, channel |-> channel,
                  header |-> [ChannelID |-> channel.channelId, Command |-> 0,
                              PayloadLength |-> 0],
                  payload |-> <<>>, backing |-> <<>>, fault |-> TRUE]
            ELSE IF payloadLength > Len(payload) % 65536
            THEN [final |-> FALSE, followup |-> FALSE,
                  channel |-> [channel EXCEPT !.inProgressHeader = Some(header),
                                              !.inProgressPayload = Some(payload)],
                  header |-> header, payload |-> <<>>, backing |-> <<>>,
                  fault |-> FALSE]
            ELSE [final |-> TRUE, followup |-> FALSE, channel |-> channel,
                  header |-> header, payload |-> SubSeq(payload, 1, payloadLength),
                  backing |-> payload, fault |-> FALSE]

(* The dispatchers.  kind is "reply" (response holds the packets), "init"   *)
(* (the INIT case, run by the Init* actions below) or "panic".  out is the  *)
(* payload the external U2F or CTAP2 processor returns; invoked lists the   *)
(* calls made to the processors, each with the payload it was given.        *)
handleBroadcastMessage(header, payload) ==
    CASE header.Command = CTAPHID_COMMAND_INIT ->
            [kind |-> "init", response |-> <<>>, invoked |-> <<>>]
      [] header.Command = CTAPHID_COMMAND_PING ->
            [kind |-> "reply",
             response |-> createResponsePackets(CTAPHID_BROADCAST_CHANNEL,
                                                CTAPHID_COMMAND_PING, payload),
             invoked |-> <<>>]
      [] OTHER -> [kind |-> "panic", response |-> <<>>, invoked |-> <<>>]

(* A faulty variant of handleDataMessage: MSG goes to the CTAP2 processor   *)
(* and CBOR to the U2F processor.                                           *)
handleDataMessageSwapped(header, payload, out) ==
    CASE header.Command = CTAPHID_COMMAND_MSG ->
            [kind |-> "reply",
             response |-> createResponsePackets(header.ChannelID, CTAPHID_COMMAND_MSG, out),
             invoked |-> <<[processor |-> "ctapServer", payload |-> payload]>>]
      [] header.Command = CTAPHID_COMMAND_CBOR ->
            [kind |-> "reply",
             response |-> createResponsePackets(header.ChannelID, CTAPHID_COMMAND_CBOR, out),
             invoked |-> <<[processor |-> "u2fServer", payload |-> payload]>>]
      [] header.Command = CTAPHID_COMMAND_PING ->
            [kind |-> "reply",
             response |-> createResponsePackets(header.ChannelID, CTAPHID_COMMAND_PING, payload),
             invoked |-> <<>>]
      [] OTHER -> [kind |-> "panic", response |-> <<>>, invoked |-> <<>>]

handleDataMessage(header, payload, out) ==
    CASE header.Command = CTAPHID_COMMAND_MSG ->
            [kind |-> "reply",
             response |-> createResponsePackets(header.ChannelID, CTAPHID_COMMAND_MSG, out),
             invoked |-> <<[processor |-> "u2fServer", payload |-> payload]>>]
      [] header.Command = CTAPHID_COMMAND_CBOR ->
            [kind |-> "reply",
             response |-> createResponsePackets(header.ChannelID, CTAPHID_COMMAND_CBOR, out),
             invoked |-> <<[processor |-> "ctapServer", payload |-> payload]>>]
      [] header.Command = CTAPHID_COMMAND_PING ->
            [kind |-> "reply",
             response |-> createResponsePackets(header.ChannelID, CTAPHID_COMMAND_PING, payload),
             invoked |-> <<>>]
      [] OTHER -> [kind |-> "panic", response |-> <<>>, invoked |-> <<>>]

handleFinalizedMessage(channel, header, payload, out) ==
    IF channel.channelId = CTAPHID_BROADCAST_CHANNEL
    THEN handleBroadcastMessage(header, payload)
    ELSE handleDataMessage(header, payload, out)

(* A faulty variant of CTAPHIDInitReponse: the copy of the nonce into the   *)
(* response (line 267) is left out.                                         *)
CTAPHIDInitReponseNoNonce(maxId, backing) ==
    [Nonce |-> <<0, 0, 0, 0, 0, 0, 0, 0>>, NewChannelID |-> U32Inc(maxId),
     ProtocolVersion |-> 2, DeviceVersionMajor |-> 0, DeviceVersionMinor |-> 0,
     DeviceVersionBuild |-> 1, CapabilitiesFlags |-> 0]

(* Lines 260-268 of the INIT case: the response struct, with the id read    *)
(* from the counter and the nonce re-sliced from the payload.               *)
CTAPHIDInitReponse(maxId, backing) ==
    [Nonce |-> SubSeq(backing, 1, 8), NewChannelID |-> U32Inc(maxId),
     ProtocolVersion |-> 2, DeviceVersionMajor |-> 0, DeviceVersionMinor |-> 0,
     DeviceVersionBuild |-> 1, CapabilitiesFlags |-> 0]

----------------------------------------------------------------------------
(* Inputs: the 64-byte reports the host sends, the ids callers wait under,  *)
(* and the payloads the external processors return.                         *)

InitialPacket(channelId, command, payloadLength, chunk) ==
    pad(newCTAPHIDMessageHeader(channelId, command, payloadLength) \o chunk,
        CTAPHIDSERVER_MAX_PACKET_SIZE)

ContinuationPacket(channelId, sequence, chunk) ==
    pad(toLEChannelID(channelId) \o <<sequence>> \o chunk,
        CTAPHIDSERVER_MAX_PACKET_SIZE)

Nonce1 == <<1, 2, 3, 4, 5, 6, 7, 8>>
Nonce2 == <<248, 0, 255, 16, 32, 64, 128, 9>>
Hello == <<104, 101, 108, 108, 111>>
LongPayload == [i \in 1..60 |-> i]

InitReport == InitialPacket(CTAPHID_BROADCAST_CHANNEL, CTAPHID_COMMAND_INIT, 8, Nonce1)
InitReport2 == InitialPacket(CTAPHID_BROADCAST_CHANNEL, CTAPHID_COMMAND_INIT, 8, Nonce2)
PingReport == InitialPacket(U32(1), CTAPHID_COMMAND_PING, 5, Hello)
CancelReport == InitialPacket(U32(1), CTAPHID_COMMAND_CANCEL, 0, <<>>)
MsgReport == InitialPacket(U32(1), CTAPHID_COMMAND_MSG, 2, <<0, 3>>)
BroadcastLockReport ==
    InitialPacket(CTAPHID_BROADCAST_CHANNEL, CTAPHID_COMMAND_LOCK, 1, <<0>>)
DataInitReport == InitialPacket(U32(1), CTAPHID_COMMAND_INIT, 8, Nonce1)
LongPingReport ==
    InitialPacket(CTAPHID_BROADCAST_CHANNEL, CTAPHID_COMMAND_PING, 60,
                  SubSeq(LongPayload, 1, 57))
LongPingContinuation ==
    ContinuationPacket(CTAPHID_BROADCAST_CHANNEL, 0, SubSeq(LongPayload, 58, 60))

Reports ==
    {InitReport, InitReport2, PingReport, CancelReport, MsgReport, BroadcastLockReport,
     DataInitReport, LongPingReport, LongPingContinuation}

(* Reports for the one-at-a-time runs: an empty PING, a CBOR request, a     *)
(* 120-byte PING on channel 1 that takes two continuation packets, a        *)
(* 100-byte PING on channel 1 that takes one, a 100-byte LOCK, which no     *)
(* dispatcher supports, and a report that ends inside the initial header.   *)
EmptyPingReport ==
    InitialPacket(CTAPHID_BROADCAST_CHANNEL, CTAPHID_COMMAND_PING, 0, <<>>)
CborReport == InitialPacket(U32(1), CTAPHID_COMMAND_CBOR, 3, <<4, 160, 7>>)
DataPayload == [i \in 1..120 |-> 255 - i]
DataLongReport ==
    InitialPacket(U32(1), CTAPHID_COMMAND_PING, 120, SubSeq(DataPayload, 1, 57))
DataPingReport ==
    InitialPacket(U32(1), CTAPHID_COMMAND_PING, 100, SubSeq(DataPayload, 1, 57))
DataLockReport ==
    InitialPacket(U32(1), CTAPHID_COMMAND_LOCK, 100, SubSeq(DataPayload, 1, 57))
DataContinuation0 == ContinuationPacket(U32(1), 0, SubSeq(DataPayload, 58, 116))
DataContinuation1 == ContinuationPacket(U32(1), 1, SubSeq(DataPayload, 117, 120))
ShortReport == <<255, 255, 255, 255, CTAPHID_COMMAND_PING>>

SerialReports ==
    {InitReport, EmptyPingReport, MsgReport, CborReport, ShortReport,
     LongPingReport, LongPingContinuation, DataLongReport, DataPingReport,
     DataLockReport, DataContinuation0, DataContinuation1}

(* A processor output that does not fit one packet. *)
LongOutput == [i \in 1..58 |-> 200 + (i % 50)]

ProcessorOutputs == {<<144, 0>>, LongOutput}

(* The processor output of the one-at-a-time runs. *)
SerialOutputs == {LongOutput}

WaitIds == {U32(1), U32(2)}

----------------------------------------------------------------------------
(* State *)

VARIABLES
    maxChannelID,         \* server.maxChannelID
    channels,             \* server.channels: channel id -> channel
    responses,            \* server.responses: the buffered outbound queue
    waitingForResponses,  \* server.waitingForResponses: id -> kill switch
    crash,                \* "none", or how the process died: "panic", "fatal"
    hpc, hl,              \* handleMessage goroutines: position and locals
    wpc, calls,           \* getResponse calls: position; id, outcome so far
    kpc, kl,              \* removeWaitingRequest calls: position and locals
    initIds,              \* history: NewChannelID of every INIT response
    encoded,              \* codec: a message and the packets that frame it
    fed,                  \* codec: how many of the packets the channel was given
    rxChannel,            \* codec: the channel that reassembles the packets
    finalized             \* codec: the messages handed to the dispatcher

vars ==
    <<maxChannelID, channels, responses, waitingForResponses, crash, hpc, hl,
      wpc, calls, kpc, kl, initIds, encoded, fed, rxChannel, finalized>>

serverVars == <<maxChannelID, channels, crash, hpc, hl, initIds>>
waiterVars == <<wpc, calls>>
cancelVars == <<kpc, kl>>
codecVars == <<encoded, fed, rxChannel, finalized>>

NoLocals ==
    [channelId |-> U32(0), response |-> <<>>, sent |-> 0, header |-> None,
     init |-> None, tmp |-> U32(0), followup |-> FALSE]

(* A getResponse call: the id it waits under, the packets it took from the  *)
(* queue, the kill signals it received, and what it returned (nil is None). *)
(* The kill switch a call makes is named by the call.                       *)
NoCall == [id |-> U32(0), packets |-> <<>>, kills |-> 0, result |-> None]

(* A removeWaitingRequest call: its id, the kill switch it loaded (0 when   *)
(* none), and what it returned.                                             *)
NoCancel == [id |-> U32(0), killSwitch |-> 0, result |-> FALSE]

ServerInit ==
    /\ maxChannelID = U32(0)
    /\ channels = [c \in {CTAPHID_BROADCAST_CHANNEL} |-> NewCTAPHIDChannel(c)]
    /\ responses = <<>>
    /\ waitingForResponses = [i \in {} |-> 0]
    /\ crash = "none"
    /\ hpc = [h \in Handlers |-> "new"]
    /\ hl = [h \in Handlers |-> NoLocals]
    /\ wpc = [w \in Waiters |-> "new"]
    /\ calls = [w \in Waiters |-> NoCall]
    /\ kpc = [k \in Cancellers |-> "new"]
    /\ kl = [k \in Cancellers |-> NoCancel]
    /\ initIds = <<>>

(* No message is being framed. *)
NoMessage ==
    [channelId |-> CTAPHID_BROADCAST_CHANNEL, command |-> CTAPHID_COMMAND_PING,
     payload |-> <<>>, framed |-> FALSE, packets |-> <<>>]

CodecIdle ==
    /\ encoded = NoMessage
    /\ fed = 0
    /\ rxChannel = NewCTAPHIDChannel(CTAPHID_BROADCAST_CHANNEL)
    /\ finalized = <<>>

Init == ServerInit /\ CodecIdle

(* A faulty variant of MapStore: storing a channel also discards the        *)
(* in-progress state of every channel already in the map.                   *)
MapStoreClearing(map, key, value) ==
    [x \in DOMAIN map \cup {key} |->
        IF x = key THEN value
        ELSE [map[x] EXCEPT !.inProgressHeader = None, !.inProgressPayload = None]]

MapStore(map, key, value) ==
    [x \in DOMAIN map \cup {key} |-> IF x = key THEN value ELSE map[x]]

MapDelete(map, key) == [x \in DOMAIN map \ {key} |-> map[x]]

----------------------------------------------------------------------------
(* handleMessage goroutines, started in the order the reports arrive *)

(* A faulty variant of Reset: only the header is set to nil. *)
ResetHeaderOnly(channel) == [channel EXCEPT !.inProgressHeader = None]

Reset(channel) ==
    [channel EXCEPT !.inProgressHeader = None, !.inProgressPayload = None]

(* server.handleMessage from the channel lookup to the point where the      *)
(* response is known: the channel's reassembly step and, for a finalized    *)
(* message, the dispatch.  The INIT case goes on in the Init* actions.      *)
HandleMessage(h, message, out) ==
    /\ crash = "none"
    /\ hpc[h] = "new"
    /\ \A g \in Handlers : g < h => hpc[g] # "new"
    /\ LET channelId == readLEChannelID(message)
           exists == channelId \in DOMAIN channels
           channel == channels[channelId]
           r == channelHandleMessage(channel, message)
           d == handleFinalizedMessage(channel, r.header, r.payload, out)
           outcome == IF ~exists THEN "error"
                      ELSE IF r.fault THEN "panic"
                      ELSE IF ~r.final THEN "buffer" ELSE d.kind
           response == CASE outcome = "error" ->
                                ctapHidError(channelId, CTAPHID_ERR_INVALID_CHANNEL)
                         [] outcome = "reply" -> d.response
                         [] OTHER -> <<>>
           returns == outcome \in {"error", "buffer", "reply"} /\ response = <<>>
       IN /\ channels' =
                IF ~exists THEN channels
                ELSE IF outcome = "reply" /\ r.followup
                     THEN [channels EXCEPT ![channelId] = Reset(r.channel)]
                     ELSE [channels EXCEPT ![channelId] = r.channel]
          /\ crash' = IF outcome = "panic" THEN "panic" ELSE crash
          /\ hl' = [hl EXCEPT ![h] =
                IF returns THEN NoLocals
                ELSE [channelId |-> channelId, response |-> response, sent |-> 0,
                      header |-> IF exists /\ r.final THEN Some(r.header) ELSE None,
                      init |-> IF outcome = "init"
                               THEN Some(CTAPHIDInitReponse(maxChannelID, r.backing))
                               ELSE None,
                      tmp |-> U32(0),
                      followup |-> exists /\ r.followup]]
          /\ hpc' = [hpc EXCEPT ![h] =
                CASE outcome = "init" -> "incr_load"
                  [] outcome = "panic" -> "panic"
                  [] returns -> "done"
                  [] OTHER -> "send"]
    /\ UNCHANGED <<maxChannelID, responses, waitingForResponses, initIds>>
    /\ UNCHANGED <<waiterVars, cancelVars>>
    /\ UNCHANGED codecVars

(* server.maxChannelID += 1 is a load and a store; nothing orders it with   *)
(* the same statement of another goroutine.                                 *)
InitIncrLoad(h) ==
    /\ crash = "none"
    /\ hpc[h] = "incr_load"
    /\ hl' = [hl EXCEPT ![h].tmp = maxChannelID]
    /\ hpc' = [hpc EXCEPT ![h] = "incr_store"]
    /\ UNCHANGED <<maxChannelID, channels, responses, waitingForResponses, crash,
                   initIds>>
    /\ UNCHANGED <<waiterVars, cancelVars>>
    /\ UNCHANGED codecVars

(* A faulty variant of InitIncrStore: the counter is stored back without    *)
(* the increment.                                                           *)
InitIncrStoreNoIncrement(h) ==
    /\ crash = "none"
    /\ hpc[h] = "incr_store"
    /\ maxChannelID' = hl[h].tmp
    /\ hpc' = [hpc EXCEPT ![h] = "store"]
    /\ UNCHANGED <<channels, responses, waitingForResponses, crash, hl, initIds>>
    /\ UNCHANGED <<waiterVars, cancelVars>>
    /\ UNCHANGED codecVars

InitIncrStore(h) ==
    /\ crash = "none"
    /\ hpc[h] = "incr_store"
    /\ maxChannelID' = U32Inc(hl[h].tmp)
    /\ hpc' = [hpc EXCEPT ![h] = "store"]
    /\ UNCHANGED <<channels, responses, waitingForResponses, crash, hl, initIds>>
    /\ UNCHANGED <<waiterVars, cancelVars>>
    /\ UNCHANGED codecVars

(* server.channels[response.NewChannelID] = NewCTAPHIDChannel(...) and the  *)
(* framing of the init response.                                            *)
InitStoreChannel(h) ==
    /\ crash = "none"
    /\ hpc[h] = "store"
    /\ LET init == hl[h].init[1]
           id == init.NewChannelID
           stored == MapStore(channels, id, NewCTAPHIDChannel(id))
           response == createResponsePackets(CTAPHID_BROADCAST_CHANNEL,
                           CTAPHID_COMMAND_INIT, toLEInitResponse(init))
       IN /\ channels' =
                IF hl[h].followup /\ id # CTAPHID_BROADCAST_CHANNEL
                THEN [stored EXCEPT ![CTAPHID_BROADCAST_CHANNEL] = Reset(@)]
                ELSE stored
          /\ initIds' = Append(initIds, id)
          /\ hl' = [hl EXCEPT ![h].response = response]
          /\ hpc' = [hpc EXCEPT ![h] = "send"]
    /\ UNCHANGED <<maxChannelID, responses, waitingForResponses, crash>>
    /\ UNCHANGED <<waiterVars, cancelVars>>
    /\ UNCHANGED codecVars

(* server.channels is a plain Go map that the goroutines share without a    *)
(* lock.  While goroutine g is about to write it (line 270), an access by   *)
(* goroutine h, its own write or the lookup of line 179 for the report that *)
(* arrives next, can overlap the write; the runtime may then detect the     *)
(* concurrent access and kill the process.  When it does not, the accesses  *)
(* land in either order, which the other actions cover.                     *)
FatalMapAccess(h, g) ==
    /\ crash = "none"
    /\ h # g
    /\ hpc[g] = "store"
    /\ \/ hpc[h] = "store"
       \/ hpc[h] = "new" /\ \A f \in Handlers : f < h => hpc[f] # "new"
    /\ crash' = "fatal"
    /\ UNCHANGED <<maxChannelID, channels, responses, waitingForResponses,
                   hpc, hl, initIds>>
    /\ UNCHANGED <<waiterVars, cancelVars>>
    /\ UNCHANGED codecVars

(* A faulty variant of sendResponse: a packet that finds the queue full is   *)
(* dropped instead of waited for (a send with a default case).              *)
sendResponseDropWhenFull(h) ==
    /\ crash = "none"
    /\ hpc[h] = "send"
    /\ responses' = IF Len(responses) < ResponsesCapacity
                    THEN Append(responses, hl[h].response[hl[h].sent + 1])
                    ELSE responses
    /\ IF hl[h].sent + 1 = Len(hl[h].response)
       THEN /\ hpc' = [hpc EXCEPT ![h] = "done"]
            /\ hl' = [hl EXCEPT ![h] = NoLocals]
       ELSE /\ hpc' = hpc
            /\ hl' = [hl EXCEPT ![h].sent = @ + 1]
    /\ UNCHANGED <<maxChannelID, channels, waitingForResponses, crash, initIds>>
    /\ UNCHANGED <<waiterVars, cancelVars>>
    /\ UNCHANGED codecVars

(* server.sendResponse: one packet per step; a full queue blocks the send.  *)
sendResponse(h) ==
    /\ crash = "none"
    /\ hpc[h] = "send"
    /\ Len(responses) < ResponsesCapacity
    /\ responses' = Append(responses, hl[h].response[hl[h].sent + 1])
    /\ IF hl[h].sent + 1 = Len(hl[h].response)
       THEN /\ hpc' = [hpc EXCEPT ![h] = "done"]
            /\ hl' = [hl EXCEPT ![h] = NoLocals]
       ELSE /\ hpc' = hpc
            /\ hl' = [hl EXCEPT ![h].sent = @ + 1]
    /\ UNCHANGED <<maxChannelID, channels, waitingForResponses, crash, initIds>>
    /\ UNCHANGED <<waiterVars, cancelVars>>
    /\ UNCHANGED codecVars

----------------------------------------------------------------------------
(* getResponse calls *)

(* killSwitch := make(chan bool); waitingForResponses.Store(id, killSwitch) *)
getResponse(w, id) ==
    /\ crash = "none"
    /\ wpc[w] = "new"
    /\ \A v \in Waiters : v < w => wpc[v] # "new"
    /\ calls' = [calls EXCEPT ![w].id = id]
    /\ waitingForResponses' = MapStore(waitingForResponses, id, w)
    /\ wpc' = [wpc EXCEPT ![w] = "select"]
    /\ UNCHANGED <<responses, serverVars, cancelVars>>
    /\ UNCHANGED codecVars

(* A faulty variant of the receive case: a call that has taken the kill     *)
(* signal still takes a packet from the queue.                              *)
getResponseReceiveAfterKill(w) ==
    /\ crash = "none"
    /\ wpc[w] \in {"select", "delete"}
    /\ responses # <<>>
    /\ responses' = Tail(responses)
    /\ calls' = [calls EXCEPT ![w].packets = Append(@, Head(responses)),
                              ![w].result = Some(Head(responses))]
    /\ wpc' = [wpc EXCEPT ![w] = "done"]
    /\ UNCHANGED <<waitingForResponses, serverVars, cancelVars>>
    /\ UNCHANGED codecVars

(* A faulty variant of the receive case: the call returns the packet at the *)
(* head of the queue and leaves it there.                                   *)
getResponseReceivePeek(w) ==
    /\ crash = "none"
    /\ wpc[w] = "select"
    /\ responses # <<>>
    /\ responses' = responses
    /\ calls' = [calls EXCEPT ![w].packets = Append(@, Head(responses)),
                              ![w].result = Some(Head(responses))]
    /\ wpc' = [wpc EXCEPT ![w] = "done"]
    /\ UNCHANGED <<waitingForResponses, serverVars, cancelVars>>
    /\ UNCHANGED codecVars

(* case response := <-server.responses: return response *)
getResponseReceive(w) ==
    /\ crash = "none"
    /\ wpc[w] = "select"
    /\ responses # <<>>
    /\ responses' = Tail(responses)
    /\ calls' = [calls EXCEPT ![w].packets = Append(@, Head(responses)),
                              ![w].result = Some(Head(responses))]
    /\ wpc' = [wpc EXCEPT ![w] = "done"]
    /\ UNCHANGED <<waitingForResponses, serverVars, cancelVars>>
    /\ UNCHANGED codecVars

(* case <-killSwitch, taken together with the sender's                      *)
(* killSwitch.(chan bool) <- true; return true: the kill switch is          *)
(* unbuffered, so the send and the receive are one step.                    *)
killSwitch(k, w) ==
    /\ crash = "none"
    /\ kpc[k] = "send"
    /\ wpc[w] = "select"
    /\ kl[k].killSwitch = w
    /\ calls' = [calls EXCEPT ![w].kills = @ + 1]
    /\ wpc' = [wpc EXCEPT ![w] = "delete"]
    /\ kpc' = [kpc EXCEPT ![k] = "done"]
    /\ kl' = [kl EXCEPT ![k].result = TRUE]
    /\ UNCHANGED <<responses, waitingForResponses, serverVars>>
    /\ UNCHANGED codecVars

(* server.waitingForResponses.Delete(id); return nil *)
getResponseDelete(w) ==
    /\ crash = "none"
    /\ wpc[w] = "delete"
    /\ waitingForResponses' = MapDelete(waitingForResponses, calls[w].id)
    /\ wpc' = [wpc EXCEPT ![w] = "done"]
    /\ UNCHANGED <<responses, calls, serverVars, cancelVars>>
    /\ UNCHANGED codecVars

----------------------------------------------------------------------------
(* removeWaitingRequest calls *)

(* killSwitch, ok := server.waitingForResponses.Load(id); the !ok branch    *)
(* returns false at once, the ok branch goes on to the blocking send.       *)
removeWaitingRequest(k, id) ==
    /\ crash = "none"
    /\ kpc[k] = "new"
    /\ \A j \in Cancellers : j < k => kpc[j] # "new"
    /\ IF id \in DOMAIN waitingForResponses
       THEN /\ kpc' = [kpc EXCEPT ![k] = "send"]
            /\ kl' = [kl EXCEPT ![k] =
                        [id |-> id, killSwitch |-> waitingForResponses[id],
                         result |-> FALSE]]
       ELSE /\ kpc' = [kpc EXCEPT ![k] = "done"]
            /\ kl' = [kl EXCEPT ![k] =
                        [id |-> id, killSwitch |-> 0, result |-> FALSE]]
    /\ UNCHANGED <<responses, waitingForResponses, serverVars, waiterVars>>
    /\ UNCHANGED codecVars

----------------------------------------------------------------------------
(* Specifications *)

Next ==
    \/ \E h \in Handlers, message \in Reports, out \in ProcessorOutputs :
            HandleMessage(h, message, out)
    \/ \E h \in Handlers : InitIncrLoad(h)
    \/ \E h \in Handlers : InitIncrStore(h)
    \/ \E h \in Handlers : InitStoreChannel(h)
    \/ \E h \in Handlers, g \in Handlers : FatalMapAccess(h, g)
    \/ \E h \in Handlers : sendResponse(h)
    \/ \E w \in Waiters, id \in WaitIds : getResponse(w, id)
    \/ \E w \in Waiters : getResponseReceive(w)
    \/ \E k \in Cancellers, w \in Waiters : killSwitch(k, w)
    \/ \E w \in Waiters : getResponseDelete(w)
    \/ \E k \in Cancellers, id \in WaitIds : removeWaitingRequest(k, id)

Spec == Init /\ [][Next]_vars

(* The Go scheduler runs every goroutine that can take a step; the arrival  *)
(* of reports and the start of getResponse and removeWaitingRequest calls   *)
(* are up to the environment and carry no fairness.                         *)
Fairness ==
    /\ \A h \in Handlers :
          WF_vars(InitIncrLoad(h) \/ InitIncrStore(h)
                  \/ InitStoreChannel(h) \/ sendResponse(h))
    /\ \A w \in Waiters :
          WF_vars(getResponseReceive(w) \/ getResponseDelete(w)
                  \/ \E k \in Cancellers : killSwitch(k, w))

FairSpec == Spec /\ Fairness

(* The schedule in which every report is handled to the end before the next *)
(* one arrives: the goroutines of readLoop never overlap, so the channel    *)
(* table is never accessed by two of them at once.  The callers of          *)
(* getResponse and removeWaitingRequest still run concurrently with the     *)
(* handler and with each other.                                             *)
SeqNext ==
    \/ \E h \in Handlers, message \in Reports, out \in ProcessorOutputs :
            /\ \A g \in Handlers : hpc[g] \in {"new", "done"}
            /\ HandleMessage(h, message, out)
    \/ \E h \in Handlers : InitIncrLoad(h)
    \/ \E h \in Handlers : InitIncrStore(h)
    \/ \E h \in Handlers : InitStoreChannel(h)
    \/ \E h \in Handlers : sendResponse(h)
    \/ \E w \in Waiters, id \in WaitIds : getResponse(w, id)
    \/ \E w \in Waiters : getResponseReceive(w)
    \/ \E k \in Cancellers, w \in Waiters : killSwitch(k, w)
    \/ \E w \in Waiters : getResponseDelete(w)
    \/ \E k \in Cancellers, id \in WaitIds : removeWaitingRequest(k, id)

SeqSpec == Init /\ [][SeqNext]_vars

----------------------------------------------------------------------------
(* The outbound queue under load.  The server has answered one INIT, whose  *)
(* response is still queued; the processor returns payloads framed in 51    *)
(* packets, so that two responses overfill the queue; the reports are       *)
(* handled one at a time, and getResponse calls take packets from the queue.*)

FillingOutput == [i \in 1..(57 + 59 * (ResponsesCapacity \div 2)) |-> (i % 255) + 1]

QueueReports == {InitReport2, MsgReport}

QueueInit ==
    /\ maxChannelID = U32(1)
    /\ channels = [c \in {CTAPHID_BROADCAST_CHANNEL, U32(1)} |-> NewCTAPHIDChannel(c)]
    /\ responses =
          createResponsePackets(CTAPHID_BROADCAST_CHANNEL, CTAPHID_COMMAND_INIT,
              toLEInitResponse(CTAPHIDInitReponse(U32(0), Nonce1)))
    /\ waitingForResponses = [i \in {} |-> 0]
    /\ crash = "none"
    /\ hpc = [h \in Handlers |-> "new"]
    /\ hl = [h \in Handlers |-> NoLocals]
    /\ wpc = [w \in Waiters |-> "new"]
    /\ calls = [w \in Waiters |-> NoCall]
    /\ kpc = [k \in Cancellers |-> "new"]
    /\ kl = [k \in Cancellers |-> NoCancel]
    /\ initIds = <<U32(1)>>
    /\ CodecIdle

QueueNext ==
    \/ \E h \in Handlers, message \in QueueReports :
            /\ \A g \in Handlers : hpc[g] \in {"new", "done"}
            /\ HandleMessage(h, message, FillingOutput)
    \/ \E h \in Handlers : InitIncrLoad(h)
    \/ \E h \in Handlers : InitIncrStore(h)
    \/ \E h \in Handlers : InitStoreChannel(h)
    \/ \E h \in Handlers : sendResponse(h)
    \/ \E w \in Waiters : getResponse(w, U32(1))
    \/ \E w \in Waiters : getResponseReceive(w)

QueueSpec == QueueInit /\ [][QueueNext]_vars

QueueFairSpec == QueueSpec /\ Fairness

----------------------------------------------------------------------------
(* The codec on its own: a message is framed by createResponsePackets and   *)
(* its packets are given in order to an Idle channel's handleMessage; the   *)
(* dispatcher is replaced by a log of what it is handed.                    *)

PayloadLengths == (0..MaxPayloadLength) \cup {4096}

(* Payload bytes are never zero, so that they differ from the padding. *)
PayloadOf(length) == [i \in 1..length |-> (i % 255) + 1]

CodecChannelIds == {CTAPHID_BROADCAST_CHANNEL, U32(1)}

CodecCommands == {CTAPHID_COMMAND_PING, CTAPHID_COMMAND_CBOR}

CodecInit ==
    /\ ServerInit
    /\ \E channelId \in CodecChannelIds, command \in CodecCommands,
          length \in PayloadLengths :
            /\ encoded = [channelId |-> channelId, command |-> command,
                          payload |-> PayloadOf(length), framed |-> FALSE,
                          packets |-> <<>>]
            /\ rxChannel = NewCTAPHIDChannel(channelId)
    /\ fed = 0
    /\ finalized = <<>>

(* The call createResponsePackets(channelId, command, payload). *)
frameMessage ==
    /\ ~encoded.framed
    /\ encoded' = [encoded EXCEPT
                      !.framed = TRUE,
                      !.packets = createResponsePackets(encoded.channelId,
                                      encoded.command, encoded.payload)]
    /\ UNCHANGED <<fed, rxChannel, finalized, responses, waitingForResponses>>
    /\ UNCHANGED <<serverVars, waiterVars, cancelVars>>

(* channel.handleMessage on the next packet: lines 205-244, with the call   *)
(* of handleFinalizedMessage logged and the reset of lines 218-219.         *)
channelFeed ==
    /\ encoded.framed
    /\ fed < Len(encoded.packets)
    /\ LET r == channelHandleMessage(rxChannel, encoded.packets[fed + 1])
       IN /\ finalized' = IF r.final
                          THEN Append(finalized,
                                      [header |-> r.header, payload |-> r.payload])
                          ELSE finalized
          /\ rxChannel' = IF r.final /\ r.followup THEN Reset(r.channel)
                          ELSE r.channel
    /\ fed' = fed + 1
    /\ UNCHANGED <<encoded, responses, waitingForResponses>>
    /\ UNCHANGED <<serverVars, waiterVars, cancelVars>>

CodecNext == frameMessage \/ channelFeed

CodecSpec == CodecInit /\ [][CodecNext]_vars

----------------------------------------------------------------------------
(* Channel allocation with a counter that wraps.  CTAPHIDChannelID is an    *)
(* unsigned integer of CounterBits bits here, the broadcast id is the value *)
(* with all bits set, and INIT requests are handled one after the other.    *)

CounterModulus == 2 ^ CounterBits

NarrowBroadcastChannel == CounterModulus - 1

WrapInit ==
    /\ maxChannelID = 0
    /\ channels = [c \in {NarrowBroadcastChannel} |-> NewCTAPHIDChannel(c)]
    /\ responses = <<>>
    /\ waitingForResponses = [i \in {} |-> 0]
    /\ crash = "none"
    /\ hpc = [h \in Handlers |-> "new"]
    /\ hl = [h \in Handlers |-> NoLocals]
    /\ wpc = [w \in Waiters |-> "new"]
    /\ calls = [w \in Waiters |-> NoCall]
    /\ kpc = [k \in Cancellers |-> "new"]
    /\ kl = [k \in Cancellers |-> NoCancel]
    /\ initIds = <<>>
    /\ CodecIdle

(* The INIT case of handleBroadcastMessage, lines 260-270: the new id is    *)
(* the counter plus one, the counter is incremented, and the new channel is *)
(* stored in the table under the new id.                                    *)
allocateChannel ==
    /\ Len(initIds) <= CounterModulus
    /\ LET NewChannelID == (maxChannelID + 1) % CounterModulus
       IN /\ maxChannelID' = (maxChannelID + 1) % CounterModulus
          /\ channels' = MapStore(channels, NewChannelID,
                                  NewCTAPHIDChannel(NewChannelID))
          /\ initIds' = Append(initIds, NewChannelID)
    /\ UNCHANGED <<responses, waitingForResponses, crash, hpc, hl>>
    /\ UNCHANGED <<waiterVars, cancelVars, codecVars>>

WrapNext == allocateChannel

WrapSpec == WrapInit /\ [][WrapNext]_vars

----------------------------------------------------------------------------
(* Callers of getResponse and removeWaitingRequest, all under the id of     *)
(* channel 1, while MSG requests on channel 1 are answered with the         *)
(* two-packet output.  The run starts where QueueInit does: channel 1 is    *)
(* allocated and the packet that answers its INIT is in the queue.          *)

CallSlots == 1..MaxCalls
RemoveSlots == 1..MaxRemoves

CallInit ==
    /\ maxChannelID = U32(1)
    /\ channels = [c \in {CTAPHID_BROADCAST_CHANNEL, U32(1)} |-> NewCTAPHIDChannel(c)]
    /\ responses =
          createResponsePackets(CTAPHID_BROADCAST_CHANNEL, CTAPHID_COMMAND_INIT,
              toLEInitResponse(CTAPHIDInitReponse(U32(0), Nonce1)))
    /\ waitingForResponses = [i \in {} |-> 0]
    /\ crash = "none"
    /\ hpc = [h \in Handlers |-> "new"]
    /\ hl = [h \in Handlers |-> NoLocals]
    /\ wpc = [w \in CallSlots |-> "new"]
    /\ calls = [w \in CallSlots |-> NoCall]
    /\ kpc = [k \in RemoveSlots |-> "new"]
    /\ kl = [k \in RemoveSlots |-> NoCancel]
    /\ initIds = <<U32(1)>>
    /\ CodecIdle

CallNext ==
    \/ \E h \in Handlers :
            /\ \A g \in Handlers : hpc[g] \in {"new", "done"}
            /\ HandleMessage(h, MsgReport, LongOutput)
    \/ \E h \in Handlers : sendResponse(h)
    \/ \E w \in CallSlots :
            /\ \A v \in CallSlots : v < w => wpc[v] # "new"
            /\ getResponse(w, U32(1))
    \/ \E w \in CallSlots : getResponseReceive(w)
    \/ \E k \in RemoveSlots, w \in CallSlots : killSwitch(k, w)
    \/ \E w \in CallSlots : getResponseDelete(w)
    \/ \E k \in RemoveSlots :
            /\ \A j \in RemoveSlots : j < k => kpc[j] # "new"
            /\ removeWaitingRequest(k, U32(1))

CallSpec == CallInit /\ [][CallNext]_vars

----------------------------------------------------------------------------
(* Reports handled one at a time: the read loop hands the next report to    *)
(* server.handleMessage only after the call for the report before it has    *)
(* returned.  serveMessage is that whole call: the lookup (line 179), the   *)
(* channel's step, the dispatch with the INIT case (lines 259-271) and the  *)
(* sends of sendResponse.  fed counts the calls; finalized records every    *)
(* message handed to handleFinalizedMessage and the processor calls made    *)
(* for it.                                                                  *)

serveMessage(message, out) ==
    /\ crash = "none"
    /\ fed < MaxServed
    /\ LET channelId == readLEChannelID(message)
           exists == channelId \in DOMAIN channels
           channel == channels[channelId]
           r == channelHandleMessage(channel, message)
           d == handleFinalizedMessage(channel, r.header, r.payload, out)
           outcome == IF ~exists THEN "error"
                      ELSE IF r.fault THEN "panic"
                      ELSE IF ~r.final THEN "buffer" ELSE d.kind
           init == CTAPHIDInitReponse(maxChannelID, r.backing)
           id == init.NewChannelID
           stored == MapStore([channels EXCEPT ![channelId] = r.channel], id,
                              NewCTAPHIDChannel(id))
           response == CASE outcome = "error" ->
                                ctapHidError(channelId, CTAPHID_ERR_INVALID_CHANNEL)
                         [] outcome = "reply" -> d.response
                         [] outcome = "init" ->
                                createResponsePackets(CTAPHID_BROADCAST_CHANNEL,
                                    CTAPHID_COMMAND_INIT, toLEInitResponse(init))
                         [] OTHER -> <<>>
       IN /\ Len(responses) + Len(response) <= ResponsesCapacity
          /\ channels' =
                CASE ~exists -> channels
                  [] exists /\ outcome = "init" ->
                        IF r.followup /\ id # CTAPHID_BROADCAST_CHANNEL
                        THEN [stored EXCEPT ![CTAPHID_BROADCAST_CHANNEL] = Reset(@)]
                        ELSE stored
                  [] exists /\ outcome = "reply" /\ r.followup ->
                        [channels EXCEPT ![channelId] = Reset(r.channel)]
                  [] OTHER -> [channels EXCEPT ![channelId] = r.channel]
          /\ maxChannelID' = IF outcome = "init" THEN U32Inc(maxChannelID)
                             ELSE maxChannelID
          /\ initIds' = IF outcome = "init" THEN Append(initIds, id) ELSE initIds
          /\ crash' = IF outcome = "panic" THEN "panic" ELSE crash
          /\ responses' = responses \o response
          /\ finalized' =
                IF exists /\ ~r.fault /\ r.final
                THEN Append(finalized, [header |-> r.header, payload |-> r.payload,
                                        invoked |-> d.invoked])
                ELSE finalized
    /\ fed' = fed + 1
    /\ UNCHANGED <<waitingForResponses, hpc, hl, encoded, rxChannel>>
    /\ UNCHANGED <<waiterVars, cancelVars>>

SerialNext == \E message \in SerialReports, out \in SerialOutputs :
                  serveMessage(message, out)

SerialSpec == Init /\ [][SerialNext]_vars

----------------------------------------------------------------------------
(* Properties *)

PacketChannelID(packet) == readLEChannelID(packet)
PacketCommand(packet) == packet[5]

(* The one packet of an ERROR response, byte by byte. *)
ErrorPacket(channelId, err) ==
    <<channelId[4], channelId[3], channelId[2], channelId[1], 191, 0, 1, err>>
        \o [i \in 1..56 |-> 0]

\* C1: the init responses of concurrently handled INIT requests carry pairwise
\* distinct new channel ids, and the channel table holds a channel for each.
InitIdsDistinct ==
    /\ \A i, j \in 1..Len(initIds) : i # j => initIds[i] # initIds[j]
    /\ \A i \in 1..Len(initIds) : initIds[i] \in DOMAIN channels

\* C2: a getResponse(id) call is handed only packets of the response to its
\* own request, the one on channel id.
CorrelatedDelivery ==
    \A w \in Waiters : \A i \in 1..Len(calls[w].packets) :
        PacketChannelID(calls[w].packets[i]) = calls[w].id

(* The removeWaitingRequest calls that returned true on the kill switch of  *)
(* call w.                                                                  *)
CancelledBy(w) ==
    {k \in Cancellers : kpc[k] = "done" /\ kl[k].result /\ kl[k].killSwitch = w}

\* C3: a getResponse call that races with a delivery and a cancellation ends
\* with exactly one outcome: it takes one packet and returns it, or it takes
\* one kill signal and returns nil; never both, and it is blocked only while
\* it has taken neither.
ExactlyOneOutcome ==
    \A w \in Waiters :
        LET taken == Len(calls[w].packets) + calls[w].kills IN
        /\ taken <= 1
        /\ wpc[w] \in {"new", "select"} <=> taken = 0
        /\ wpc[w] = "delete" => calls[w].kills = 1
        /\ wpc[w] = "done" =>
              /\ calls[w].result = None <=> calls[w].kills = 1
              /\ calls[w].result # None => calls[w].result = calls[w].packets
        /\ Cardinality(CancelledBy(w)) = calls[w].kills

\* C3 witness: a call returned a delivered packet while a canceller that had
\* loaded its kill switch was sending on it.
DeliveryWonTheRace ==
    \E w \in Waiters, k \in Cancellers :
        /\ wpc[w] = "done" /\ calls[w].result # None
        /\ kpc[k] = "send" /\ kl[k].killSwitch = w

\* C4: once a getResponse(id) call has returned, delivered or cancelled,
\* waitingForResponses holds no entry left by it: every entry belongs to a
\* call that is still running.
NoStaleEntry ==
    \A id \in DOMAIN waitingForResponses : wpc[waitingForResponses[id]] # "done"

\* C5: removeWaitingRequest(id) returns true exactly when it unblocks a caller
\* blocked in getResponse(id); when no caller is waiting under id it returns
\* false at once and changes nothing.
RemoveReportsWaiter ==
    [][\A k \in Cancellers :
          /\ \A id \in WaitIds :
                (/\ removeWaitingRequest(k, id)
                 /\ ~\E w \in Waiters : wpc[w] \in {"select", "delete"} /\ calls[w].id = id)
                => /\ kpc'[k] = "done"
                   /\ ~kl'[k].result
                   /\ UNCHANGED <<responses, waitingForResponses, calls, wpc>>
          /\ (kl'[k].result /\ ~kl[k].result)
                => \E w \in Waiters :
                      /\ calls[w].id = kl[k].id
                      /\ wpc[w] = "select" /\ wpc'[w] = "delete"
      ]_vars

\* C6: every removeWaitingRequest call eventually returns while the server
\* runs, whatever the interleaving with getResponse and sendResponse.
CancelEventuallyReturns ==
    \A k \in Cancellers : (kpc[k] = "send") ~> (kpc[k] = "done" \/ crash # "none")

\* C7: no sequence of 64-byte reports aborts the server.
NeverAborts == crash = "none"

\* C8: a report on a channel id that is not in the channel table makes
\* handleMessage enqueue exactly one packet, ERROR with the one payload byte
\* InvalidChannel and the report's channel id in its header, and changes
\* neither the channel table nor the counter; the server keeps running.
UnknownChannelAnswered ==
    [][\A h \in Handlers :
          /\ \A message \in Reports, out \in ProcessorOutputs :
                (/\ readLEChannelID(message) \notin DOMAIN channels
                 /\ HandleMessage(h, message, out))
                => /\ hpc'[h] = "send"
                   /\ hl'[h].header = None
                   /\ hl'[h].sent = 0
                   /\ hl'[h].response =
                        <<ErrorPacket(readLEChannelID(message), 11)>>
                   /\ UNCHANGED <<channels, maxChannelID, crash, responses>>
          /\ (sendResponse(h) /\ hl[h].header = None)
                => /\ responses' =
                        Append(responses, ErrorPacket(hl[h].channelId, 11))
                   /\ hpc'[h] = "done"
                   /\ UNCHANGED <<channels, maxChannelID, crash>>
      ]_vars

\* C8 witness: both reports are done, the first packet queued is the
\* InvalidChannel error for channel 1, and the INIT that followed was answered.
ErrorThenInitAnswered ==
    /\ \A h \in Handlers : hpc[h] = "done"
    /\ Len(responses) = 2
    /\ responses[1] = ErrorPacket(U32(1), 11)
    /\ PacketCommand(responses[2]) = CTAPHID_COMMAND_INIT
    /\ crash = "none"

SupportedCommands(channelId) ==
    IF channelId = CTAPHID_BROADCAST_CHANNEL
    THEN {CTAPHID_COMMAND_INIT, CTAPHID_COMMAND_PING}
    ELSE {CTAPHID_COMMAND_MSG, CTAPHID_COMMAND_CBOR, CTAPHID_COMMAND_PING,
          CTAPHID_COMMAND_CANCEL, CTAPHID_COMMAND_WINK, CTAPHID_COMMAND_LOCK}

\* C9: a finalized message whose command its channel does not support is
\* answered with one ERROR packet carrying InvalidCommand on that channel,
\* and the server is not aborted.
UnsupportedCommandAnswered ==
    \A h \in Handlers :
        (/\ hl[h].header # None
         /\ hl[h].header[1].Command \notin SupportedCommands(hl[h].header[1].ChannelID))
        => /\ crash = "none"
           /\ hl[h].response = <<ErrorPacket(hl[h].header[1].ChannelID, 1)>>

\* C10: once a CANCEL is finalized on a data channel, a caller waiting in
\* getResponse for that channel's request eventually returns.
CancelUnblocksWaiter ==
    \A h \in Handlers, w \in Waiters :
        (/\ hl[h].header # None
         /\ hl[h].header[1].Command = CTAPHID_COMMAND_CANCEL
         /\ hl[h].header[1].ChannelID # CTAPHID_BROADCAST_CHANNEL
         /\ wpc[w] = "select"
         /\ calls[w].id = hl[h].header[1].ChannelID)
        ~> (wpc[w] = "done")

\* C13: with the reports handled one at a time, the k-th INIT finalized on
\* the broadcast channel returns the new channel id k, one more than the
\* allocation before it, adds an Idle channel for k to the table, and its
\* response carries the 8 nonce bytes of the request unchanged.
SequentialInitAllocatesNext ==
    [][\A h \in Handlers :
          /\ \A message \in Reports, out \in ProcessorOutputs :
                (/\ hpc'[h] = "incr_load"
                 /\ HandleMessage(h, message, out))
                => hl'[h].init[1].Nonce = SubSeq(message, 8, 15)
          /\ InitStoreChannel(h)
                => LET k == Len(initIds) + 1 IN
                   /\ initIds' = Append(initIds, U32(k))
                   /\ k > 1 => U32(k) = U32Inc(initIds[k - 1])
                   /\ U32(k) \notin DOMAIN channels
                   /\ DOMAIN channels' = DOMAIN channels \cup {U32(k)}
                   /\ channels'[U32(k)] =
                        [channelId |-> U32(k), inProgressHeader |-> <<>>,
                         inProgressPayload |-> <<>>]
                   /\ Len(hl'[h].response) = 1
                   /\ SubSeq(hl'[h].response[1], 8, 15) = hl[h].init[1].Nonce
      ]_vars

\* C13 witness: two INIT requests with different nonces were handled one
\* after the other; the second was given channel id 2 and its own nonce.
TwoSequentialInits ==
    /\ initIds = <<U32(1), U32(2)>>
    /\ Len(responses) = 2
    /\ SubSeq(responses[1], 8, 15) = Nonce1
    /\ SubSeq(responses[2], 8, 15) = Nonce2
    /\ U32(2) \in DOMAIN channels
    /\ crash = "none"

\* C15: an initial packet (bit 7 of the command byte set) that arrives on a
\* channel which is Assembling is answered as a protocol error: one ERROR
\* packet on that channel, and no message is dispatched from the buffered
\* bytes with the packet appended to them.
InitialWhileAssemblingIsError ==
    [][\A h \in Handlers, message \in Reports, out \in ProcessorOutputs :
          (/\ HandleMessage(h, message, out)
           /\ readLEChannelID(message) \in DOMAIN channels
           /\ channels[readLEChannelID(message)].inProgressPayload # None
           /\ isFollowupMessage(readLECommand(message)))
          => /\ crash' = "none"
             /\ hl'[h].header = None
             /\ Len(hl'[h].response) = 1
             /\ PacketChannelID(hl'[h].response[1]) = readLEChannelID(message)
             /\ PacketCommand(hl'[h].response[1]) = CTAPHID_COMMAND_ERROR
      ]_vars

\* C16: the packets of one logical response are appended to the outbound
\* queue one right after the other: when a handler appends a further packet
\* of its response, the packet it appended before is the last one in the
\* queue, unless the queue has been emptied meanwhile.
ResponsePacketsContiguous ==
    [][\A h \in Handlers :
          (sendResponse(h) /\ hl[h].sent >= 1 /\ responses # <<>>)
          => responses[Len(responses)] = hl[h].response[hl[h].sent]
      ]_vars

(* Handler h has taken a step of its own. *)
SenderMoved(h) == hpc'[h] # hpc[h] \/ hl'[h] # hl[h]

\* C17: the outbound queue never holds more than its 100 packets and never
\* loses one: a sender moves on only by appending its next packet to a queue
\* that is not full, the queue changes only by such an append or by handing
\* its head to a getResponse call, and when a sender waits on the full queue
\* while a getResponse call is there to take a packet, the call returns and
\* the sender fills the queue again or finishes.
QueueBoundedNoLoss ==
    /\ [][/\ Len(responses') <= ResponsesCapacity
          /\ \A h \in Handlers :
                (hpc[h] = "send" /\ SenderMoved(h))
                => /\ Len(responses) < ResponsesCapacity
                   /\ responses' = Append(responses, hl[h].response[hl[h].sent + 1])
                   /\ \/ hpc'[h] = "send" /\ hl'[h] = [hl[h] EXCEPT !.sent = @ + 1]
                      \/ hpc'[h] = "done" /\ hl[h].sent + 1 = Len(hl[h].response)
          /\ responses' # responses
                => \/ \E h \in Handlers : hpc[h] = "send" /\ SenderMoved(h)
                   \/ \E w \in Waiters :
                         /\ wpc[w] = "select"
                         /\ responses' = Tail(responses)
                         /\ calls'[w].packets = Append(calls[w].packets, Head(responses))
         ]_vars
    /\ \A h \in Handlers, w \in Waiters :
          (/\ hpc[h] = "send" /\ Len(responses) = ResponsesCapacity
           /\ wpc[w] = "select")
          ~> (/\ wpc[w] = "done"
              /\ hpc[h] = "done" \/ Len(responses) = ResponsesCapacity)

\* C17 witness: the queue is full and a sender waits with packets left,
\* after a getResponse call has taken a packet from the full queue.
SenderWaitsAgainAfterTake ==
    /\ Len(responses) = ResponsesCapacity
    /\ \E h \in Handlers : hpc[h] = "send" /\ hl[h].sent < Len(hl[h].response)
    /\ \E w \in Waiters : wpc[w] = "done" /\ calls[w].packets # <<>>
    /\ responses[1] # createResponsePackets(CTAPHID_BROADCAST_CHANNEL,
                           CTAPHID_COMMAND_INIT,
                           toLEInitResponse(CTAPHIDInitReponse(U32(0), Nonce1)))[1]

\* C14: over any number of INIT allocations, with a counter that wraps, no
\* channel id is returned twice and no allocation returns the broadcast id,
\* so the broadcast channel's table entry is never overwritten.
AllocationNeverReusesAnId ==
    /\ \A i, j \in 1..Len(initIds) : i # j => initIds[i] # initIds[j]
    /\ \A i \in 1..Len(initIds) : initIds[i] # NarrowBroadcastChannel

----------------------------------------------------------------------------
(* Properties of the codec *)

\* C11: every message a channel finalizes, from one packet or reassembled
\* from continuation packets, is handed to the dispatcher with a payload of
\* exactly the payloadLength its initial packet declared.
FinalizedHasDeclaredLength ==
    \A i \in 1..Len(finalized) :
        Len(finalized[i].payload) = finalized[i].header.PayloadLength

\* C12: once all packets of createResponsePackets(channelId, command, payload)
\* have been given to an Idle channel, exactly one message has been
\* finalized and its payload is the original payload.
RoundTrip ==
    (encoded.framed /\ fed = Len(encoded.packets)) =>
        /\ Len(finalized) = 1
        /\ finalized[1].payload = encoded.payload

(* The number of payload bytes in packet i of a message of the given length: *)
(* 57 bytes follow the 7-byte header of the initial packet, 59 bytes the     *)
(* 5-byte header of a continuation packet.                                   *)
ChunkLength(length, i) ==
    LET before == IF i = 1 THEN 0 ELSE 57 + 59 * (i - 2)
        room == IF i = 1 THEN 57 ELSE 59
    IN IF length - before > room THEN room ELSE length - before

HeaderLength(i) == IF i = 1 THEN 7 ELSE 5

\* C18: every packet createResponsePackets produces is exactly 64 bytes long
\* and all its bytes after the header and the payload chunk are zero; the
\* packets held for sending and those on the outbound queue are 64 bytes.
PacketsAre64BytesZeroPadded ==
    /\ \A i \in 1..Len(encoded.packets) :
          /\ Len(encoded.packets[i]) = 64
          /\ ChunkLength(Len(encoded.payload), i) >= 1
          /\ \A j \in 1..64 :
                j > HeaderLength(i) + ChunkLength(Len(encoded.payload), i)
                => encoded.packets[i][j] = 0
    /\ \A i \in 1..Len(responses) : Len(responses[i]) = 64
    /\ \A h \in Handlers : \A i \in 1..Len(hl[h].response) :
          Len(hl[h].response[i]) = 64

\* C18 witness: a 58-byte message was framed in two packets and both were
\* given to the channel; the second carries one payload byte and padding.
PaddedLastPacket ==
    /\ Len(encoded.payload) = 58
    /\ Len(encoded.packets) = 2
    /\ fed = 2
    /\ encoded.packets[2][6] # 0
    /\ encoded.packets[2][7] = 0

\* C19: for a non-empty payload the first packet is an initial packet, channel
\* id little-endian, command, total payload length big-endian; every other
\* packet is a continuation packet, channel id little-endian and sequence
\* number, the i-th of them (from 0) carrying i; and the chunks put together
\* in packet order are the payload.
ResponsePacketLayout ==
    LET length == Len(encoded.payload)
        packets == encoded.packets
        id == encoded.channelId
    IN (encoded.framed /\ length > 0) =>
        /\ Len(packets) = IF length <= 57 THEN 1 ELSE 1 + ((length - 57 + 58) \div 59)
        /\ SubSeq(packets[1], 1, 7) =
              <<id[4], id[3], id[2], id[1], encoded.command,
                length \div 256, length % 256>>
        /\ \A i \in 2..Len(packets) :
              SubSeq(packets[i], 1, 5) = <<id[4], id[3], id[2], id[1], i - 2>>
        /\ \A k \in 1..length :
              encoded.payload[k] =
                 IF k <= 57 THEN packets[1][7 + k]
                 ELSE packets[2 + ((k - 58) \div 59)][6 + ((k - 58) % 59)]

\* C19 witness: a 4096-byte message was framed in 70 packets, the last of
\* them the continuation packet with sequence number 68.
SeventyPacketsFramed ==
    /\ Len(encoded.payload) = 4096
    /\ Len(encoded.packets) = 70
    /\ encoded.packets[70][5] = 68
    /\ encoded.packets[1][5] = encoded.command

\* C20: a message with a payload of L bytes is framed in one packet when L
\* fits the initial packet and in ceil((L - 60)/59) + 1 packets when L > 60,
\* and whether it was framed in one packet or in several, the dispatcher is
\* handed the same payload bytes that were framed.
FragmentationIndependent ==
    LET length == Len(encoded.payload)
        k == Len(encoded.packets)
    IN (encoded.framed /\ length >= 1 /\ fed = k) =>
        /\ length <= 57 => k = 1
        /\ length > 60 => k = ((length - 60 + 58) \div 59) + 1
        /\ Len(finalized) = 1
        /\ finalized[1].payload = encoded.payload

----------------------------------------------------------------------------
(* Properties of reports handled one at a time *)

(* The message the call just made handed to handleFinalizedMessage. *)
JustFinalized == finalized'[Len(finalized')]

\* C21: an empty PING is answered with exactly one packet, an initial PING
\* packet that declares payloadLength 0.
EmptyPingAnswered ==
    [][\A out \in SerialOutputs :
          serveMessage(EmptyPingReport, out) =>
              responses' = Append(responses,
                                  InitialPacket(CTAPHID_BROADCAST_CHANNEL,
                                                CTAPHID_COMMAND_PING, 0, <<>>))]_vars

\* C22: a finalized PING, single-packet or reassembled, is answered on its
\* channel with command PING and the payloadLength bytes the request carried.
PingEchoed ==
    [][\A message \in SerialReports, out \in SerialOutputs :
          (/\ serveMessage(message, out)
           /\ Len(finalized') > Len(finalized)
           /\ JustFinalized.header.Command = CTAPHID_COMMAND_PING)
          => responses' = responses \o
                 createResponsePackets(JustFinalized.header.ChannelID,
                     CTAPHID_COMMAND_PING,
                     SubSeq(JustFinalized.payload, 1,
                            JustFinalized.header.PayloadLength))]_vars

(* The only processor call made for the finalized message f. *)
InvokedOnly(f, processor) ==
    f.invoked = <<[processor |-> processor, payload |-> f.payload]>>

\* C23: a MSG (a CBOR) message finalized on an allocated data channel is
\* passed once to the U2F (the CTAP2) processor and to no other, and the bytes
\* the processor returns are framed with the same command and channel id.
DataMessageDispatched ==
    [][\A message \in SerialReports, out \in SerialOutputs :
          (/\ serveMessage(message, out)
           /\ Len(finalized') > Len(finalized)
           /\ JustFinalized.header.ChannelID # CTAPHID_BROADCAST_CHANNEL
           /\ JustFinalized.header.Command
                  \in {CTAPHID_COMMAND_MSG, CTAPHID_COMMAND_CBOR})
          => /\ InvokedOnly(JustFinalized,
                    IF JustFinalized.header.Command = CTAPHID_COMMAND_MSG
                    THEN "u2fServer" ELSE "ctapServer")
             /\ Len(responses') > Len(responses)
             /\ \A i \in (Len(responses) + 1)..Len(responses') :
                    PacketChannelID(responses'[i]) = JustFinalized.header.ChannelID
             /\ PacketCommand(responses'[Len(responses) + 1])
                    = JustFinalized.header.Command
             /\ responses' = responses \o
                    createResponsePackets(JustFinalized.header.ChannelID,
                        JustFinalized.header.Command, out)]_vars

(* After the INIT that allocates channel 1, a MSG and a CBOR request were   *)
(* served on it, each answered with the two-packet output.                  *)
MsgAndCborServed ==
    /\ Len(finalized) = 3
    /\ finalized[2].header.Command = CTAPHID_COMMAND_MSG
    /\ InvokedOnly(finalized[2], "u2fServer")
    /\ finalized[3].header.Command = CTAPHID_COMMAND_CBOR
    /\ InvokedOnly(finalized[3], "ctapServer")
    /\ finalized[3].payload = <<4, 160, 7>>
    /\ Len(responses) = 5
    /\ PacketCommand(responses[2]) = CTAPHID_COMMAND_MSG
    /\ PacketCommand(responses[4]) = CTAPHID_COMMAND_CBOR
    /\ PacketChannelID(responses[5]) = U32(1)

(* The one packet that answers the first INIT: the broadcast channel id,    *)
(* command INIT, payloadLength 17, the nonce, the four bytes of the new     *)
(* channel id, protocol version 2, device version 0.0.1, capability flags   *)
(* 0, and 40 bytes of padding.                                              *)
FirstInitPacket(idBytes) ==
    <<255, 255, 255, 255, 134, 0, 17>> \o <<1, 2, 3, 4, 5, 6, 7, 8>> \o idBytes
        \o <<2, 0, 0, 1, 0>> \o [i \in 1..40 |-> 0]

(* The call just made served the first INIT request. *)
FirstInitServed(out) ==
    /\ serveMessage(InitReport, out)
    /\ initIds = <<>>
    /\ Len(initIds') = 1

ShortReportRejected ==
    [][\A out \in SerialOutputs :
          serveMessage(ShortReport, out)
          => /\ crash' = "none"
             /\ channels' = channels
             /\ \E err \in {CTAPHID_ERR_OTHER, CTAPHID_ERR_INVALID_LENGTH} :
                    responses' = Append(responses,
                        ErrorPacket(readLEChannelID(ShortReport), err))]_vars

Idle(channel) ==
    channel.inProgressHeader = None /\ channel.inProgressPayload = None

\* C26: the channel table always contains the broadcast id, and after any
\* handleMessage call has returned the broadcast channel holds no in-progress
\* header or payload.
BroadcastIdleBetweenReports ==
    /\ CTAPHID_BROADCAST_CHANNEL \in DOMAIN channels
    /\ crash = "none" => Idle(channels[CTAPHID_BROADCAST_CHANNEL])

(* A 64-byte report is an initial packet when bit 7 of its fifth byte, the  *)
(* command, is set, and a continuation packet when it is clear.             *)
IsInitialPacket(message) == Len(message) = 64 /\ message[5] >= 128
IsContinuationPacket(message) == Len(message) = 64 /\ message[5] < 128

(* The header an initial packet carries for its channel. *)
HeaderOf(message) ==
    [ChannelID |-> readLEChannelID(message), Command |-> message[5],
     PayloadLength |-> message[6] * 256 + message[7]]

(* The four transitions of the channel c a report is addressed to. *)
ChannelTransition(message, c) ==
    LET channel == channels[c]
        header == channel.inProgressHeader[1]
        buffer == channel.inProgressPayload[1]
    IN /\ (Idle(channel) /\ IsInitialPacket(message)
            /\ HeaderOf(message).PayloadLength <= 57)
          => /\ Len(finalized') = Len(finalized) + 1
             /\ JustFinalized.header = HeaderOf(message)
             /\ Idle(channels'[c])
       /\ (Idle(channel) /\ IsInitialPacket(message)
            /\ HeaderOf(message).PayloadLength > 57)
          => /\ channels'[c].inProgressHeader = Some(HeaderOf(message))
             /\ channels'[c].inProgressPayload = Some(SubSeq(message, 8, 64))
             /\ responses' = responses
             /\ finalized' = finalized
       /\ (~Idle(channel) /\ IsContinuationPacket(message)
            /\ Len(buffer) + 59 < header.PayloadLength)
          => /\ ~Idle(channels'[c])
             /\ channels'[c].inProgressHeader = channel.inProgressHeader
             /\ responses' = responses
             /\ finalized' = finalized
       /\ (~Idle(channel) /\ IsContinuationPacket(message)
            /\ Len(buffer) + 59 >= header.PayloadLength)
          => /\ Len(finalized') = Len(finalized) + 1
             /\ JustFinalized.header = header
             /\ crash' = "none" => Idle(channels'[c])

SequenceNumberIgnored ==
    [][\A message \in SerialReports, out \in SerialOutputs :
          LET c == readLEChannelID(message) IN
          (/\ serveMessage(message, out)
           /\ c \in DOMAIN channels
           /\ ~Idle(channels[c])
           /\ IsContinuationPacket(message))
          => LET appended == channels[c].inProgressPayload[1]
                                \o SubSeq(message, 6, 64)
             IN /\ \/ /\ channels'[c].inProgressPayload = Some(appended)
                      /\ finalized' = finalized
                      /\ responses' = responses
                   \/ /\ Len(finalized') = Len(finalized) + 1
                      /\ JustFinalized.payload = appended
                /\ \A i \in (Len(responses) + 1)..Len(responses') :
                      PacketCommand(responses'[i]) # CTAPHID_COMMAND_ERROR
                /\ \A sequence \in 0..127 :
                      channelHandleMessage(channels[c],
                                           [message EXCEPT ![5] = sequence])
                          = channelHandleMessage(channels[c], message)]_vars

(* The 120-byte PING on channel 1 was completed by continuation 1 followed  *)
(* by continuation 0, and its payload holds their bytes in that order.      *)
OutOfOrderContinuationsAppended ==
    /\ Len(finalized) = 2
    /\ finalized[2].header.PayloadLength = 120
    /\ finalized[2].payload =
          SubSeq(DataLongReport, 8, 64) \o SubSeq(DataContinuation1, 6, 64)
              \o SubSeq(DataContinuation0, 6, 64)
    /\ Idle(channels[U32(1)])

(* The reports addressed to channel c. *)
ReportsFor(c) ==
    {message \in SerialReports : Len(message) = 64 /\ readLEChannelID(message) = c}

(* bytes are the payload bytes of packets addressed to channel c: 57 bytes  *)
(* that follow an initial header, then whole 59-byte continuation chunks.   *)
OwnChunks(bytes, c) ==
    /\ Len(bytes) >= 57
    /\ (Len(bytes) - 57) % 59 = 0
    /\ \E message \in ReportsFor(c) : SubSeq(bytes, 1, 57) = SubSeq(message, 8, 64)
    /\ \A k \in 1..((Len(bytes) - 57) \div 59) :
          \E message \in ReportsFor(c) :
              SubSeq(bytes, 57 + 59 * (k - 1) + 1, 57 + 59 * k)
                  = SubSeq(message, 6, 64)

InProgressConsistent ==
    crash = "none" =>
        \A c \in DOMAIN channels :
            /\ channels[c].inProgressHeader = None
                  <=> channels[c].inProgressPayload = None
            /\ channels[c].inProgressPayload # None
                  => Len(channels[c].inProgressPayload[1])
                        < channels[c].inProgressHeader[1].PayloadLength

(* Channel 1 holds 116 of the 120 bytes its header declares, and the        *)
(* broadcast channel is Idle.                                               *)
AssemblingFourBytesShort ==
    /\ crash = "none"
    /\ U32(1) \in DOMAIN channels
    /\ channels[U32(1)].inProgressHeader = Some(HeaderOf(DataLongReport))
    /\ Len(channels[U32(1)].inProgressPayload[1]) = 116
    /\ Idle(channels[CTAPHID_BROADCAST_CHANNEL])

----------------------------------------------------------------------------
(* Properties of the callers *)

\* C31: when two callers wait concurrently under the same id, every other
\* call having returned with a packet or not begun, two successive
\* removeWaitingRequest calls for that id unblock both: once the later
\* waiter w has been cancelled and a second removeWaitingRequest has
\* returned, the earlier waiter v is not left blocked in getResponse on an
\* empty queue.
EveryWaiterStaysCancellable ==
    \A v \in CallSlots, w \in CallSlots, k1 \in RemoveSlots, k2 \in RemoveSlots :
        (/\ v < w
         /\ k1 < k2
         /\ \A x \in CallSlots \ {v, w} :
               wpc[x] = "new" \/ (wpc[x] = "done" /\ calls[x].result # None)
         /\ responses = <<>>
         /\ calls[v].id = calls[w].id
         /\ kpc[k1] = "done" /\ kl[k1].result /\ kl[k1].killSwitch = w
         /\ kl[k1].id = calls[w].id
         /\ kpc[k2] = "done" /\ kl[k2].id = calls[w].id)
        => wpc[v] # "select"

\* C32: a continuation-shaped report (bit 7 of its fifth byte clear) that
\* arrives on an Idle channel is not taken for the start of a message: the
\* channel stays Idle with nothing buffered and no message is dispatched.
ContinuationOnIdleIgnored ==
    [][\A message \in SerialReports, out \in SerialOutputs :
          LET c == readLEChannelID(message) IN
          (/\ serveMessage(message, out)
           /\ c \in DOMAIN channels
           /\ Idle(channels[c])
           /\ IsContinuationPacket(message))
          => /\ Idle(channels'[c])
             /\ finalized' = finalized
             /\ crash' = crash]_vars

\* C33: the channel table only grows: no step removes an entry, and the store
\* of an INIT never lands on an id the table already holds, so the channel an
\* id was returned for is never replaced and reports addressed to the id keep
\* being routed to it.
ChannelTableOnlyGrows ==
    [][/\ DOMAIN channels \subseteq DOMAIN channels'
       /\ Len(initIds') > Len(initIds)
             => initIds'[Len(initIds')] \notin DOMAIN channels]_vars

(* The packets put on the queue so far in a run of CallSpec, in the order   *)
(* of the sends: the init response the run starts with, then what each      *)
(* handler has sent of its response, the handlers running one after the     *)
(* other.                                                                   *)
MsgResponse == createResponsePackets(U32(1), CTAPHID_COMMAND_MSG, LongOutput)

SentBy(h) ==
    IF hpc[h] = "done" THEN MsgResponse
    ELSE IF hpc[h] = "send" THEN SubSeq(hl[h].response, 1, hl[h].sent)
    ELSE <<>>

RECURSIVE SentUpTo(_)
SentUpTo(h) == IF h = 0 THEN <<>> ELSE SentUpTo(h - 1) \o SentBy(h)

Enqueued ==
    createResponsePackets(CTAPHID_BROADCAST_CHANNEL, CTAPHID_COMMAND_INIT,
        toLEInitResponse(CTAPHIDInitReponse(U32(0), Nonce1)))
    \o SentUpTo(MaxReports)

(* The number of getResponse calls that returned a packet. *)
Delivered == Cardinality({w \in CallSlots : calls[w].result # None})

\* C34: a getResponse call that is not cancelled returns exactly one 64-byte
\* packet, the one at the head of the queue, and removes it: the k-th call to
\* return a packet returns the k-th packet enqueued, so no packet is returned
\* twice and calls made one after the other receive the packets in the order
\* they were enqueued; a cancelled call takes no packet.
OnePacketPerCallInOrder ==
    [][\A w \in CallSlots :
          /\ (wpc[w] = "select" /\ wpc'[w] = "done")
                => /\ Delivered < Len(Enqueued)
                   /\ calls'[w].result = Some(Enqueued[Delivered + 1])
                   /\ calls'[w].packets = <<Enqueued[Delivered + 1]>>
                   /\ Len(Enqueued[Delivered + 1]) = CTAPHIDSERVER_MAX_PACKET_SIZE
                   /\ responses' = Tail(responses)
                   /\ Delivered' = Delivered + 1
          /\ (wpc[w] \in {"select", "delete"} /\ wpc'[w] \in {"delete", "done"}
                 /\ calls'[w].kills > 0)
                => /\ calls'[w].result = None
                   /\ calls'[w].packets = <<>>
                   /\ wpc'[w] # wpc[w] => responses' = responses]_vars

(* Three calls made one after the other have returned the init response and *)
(* then the two packets of a MSG response, in that order.                   *)
ThreeCallsInOrder ==
    /\ Len(MsgResponse) = 2
    /\ \A w \in 1..3 : wpc[w] = "done"
    /\ calls[1].result = Some(Enqueued[1])
    /\ calls[2].result = Some(MsgResponse[1])
    /\ calls[3].result = Some(MsgResponse[2])
    /\ responses = <<>>

====
